---- MODULE Spec2Model ----
(***************************************************************************)
(* Expense ledger of Jobsheet_11_PBO: the storage gateway                  *)
(* (DatabaseManager), the ledger (AnggaranHarian) and the Streamlit pages  *)
(* that call it (main_app.py), over one SQLite file.                       *)
(*                                                                         *)
(* Python values: a datetime.date is a tuple <<y, m, d>>, None in place of *)
(* a date is <<>>, a str is either a TLA+ string (labels) or, where the    *)
(* code formats or compares it, a sequence of one-character strings.       *)
(* Amounts are whole rupiah (the REAL column holds them exactly).          *)
(***************************************************************************)
EXTENDS Integers, Sequences, FiniteSets, TLC

VARIABLES
    ledger,       \* "uninit" | "ready": has AnggaranHarian.__init__ returned
    table,        \* does table transaksi exist in the database file
    rows,         \* the committed rows of transaksi
    seq,          \* sqlite_sequence.seq of transaksi (AUTOINCREMENT)
    conn,         \* DatabaseManager.conn: "none" | "closed" | "pending"
    garbage,      \* the lock of open connections nothing refers to: "none" | "reserved" | "pending"
    assigned,     \* history: every id an add has been given
    last,         \* history: the last call a caller made of the ledger itself, and its result
    filter_periode,        \* session: the value of the selectbox "Filter Periode:"
    tanggal_pilihan_state, \* session: st.session_state.tanggal_pilihan_state (<<>>: not set)
    cache_total,  \* st.cache_data of hitung_total_cached: filter -> value
    cache_kat     \* st.cache_data of get_kategori_cached: filter -> mapping

vars == <<ledger, table, rows, seq, conn, garbage, assigned, last,
          filter_periode, tanggal_pilihan_state, cache_total, cache_kat>>

\* The session state the summary page keeps.
session == <<filter_periode, tanggal_pilihan_state>>

\* Most inserts the store accepts in a run.
MaxSeq == 2

\* Most forms of halaman_input that are stored in a run.
MaxSubmit == 2

----------------------------------------------------------------------------
\* Text: strings the code formats, parses and compares.

DigitChars == <<"0", "1", "2", "3", "4", "5", "6", "7", "8", "9">>

\* The characters that occur, in code point order ('-' 45, '.' 46, '0'..'9').
Alphabet == <<"-", ".">> \o DigitChars

Ord(c) == CHOOSE i \in 1..Len(Alphabet) : Alphabet[i] = c

DigitVal(c) == (CHOOSE i \in 1..10 : DigitChars[i] = c) - 1

RECURSIVE DecDigits(_)
\* str(n) of a natural number.
DecDigits(n) ==
    IF n < 10 THEN <<DigitChars[n + 1]>>
    ELSE DecDigits(n \div 10) \o <<DigitChars[(n % 10) + 1]>>

\* %m, %d: two digits, zero padded.
ZeroPad2(n) == <<DigitChars[((n \div 10) % 10) + 1], DigitChars[(n % 10) + 1]>>

RECURSIVE NumOf(_)
NumOf(s) ==
    IF s = <<>> THEN 0
    ELSE NumOf(SubSeq(s, 1, Len(s) - 1)) * 10 + DigitVal(s[Len(s)])

\* memcmp order of two texts (SQLite's BINARY collation).
TextLess(a, b) ==
    \E i \in 1..(Len(b)) :
        /\ \A j \in 1..(i - 1) : j <= Len(a) /\ a[j] = b[j]
        /\ \/ i > Len(a)
           \/ i <= Len(a) /\ Ord(a[i]) < Ord(b[i])

\* tanggal.strftime('%Y-%m-%d')
StrftimeYmd(d) ==
    DecDigits(d[1]) \o <<"-">> \o ZeroPad2(d[2]) \o <<"-">> \o ZeroPad2(d[3])

\* pd.to_datetime on a 'YYYY-MM-DD' text: back to <<y, m, d>>.
ToDatetime(t) ==
    LET i1 == CHOOSE i \in 1..Len(t) :
                  t[i] = "-" /\ \A j \in 1..(i - 1) : t[j] # "-"
        i2 == CHOOSE i \in (i1 + 1)..Len(t) :
                  t[i] = "-" /\ \A j \in (i1 + 1)..(i - 1) : t[j] # "-"
    IN  <<NumOf(SubSeq(t, 1, i1 - 1)),
          NumOf(SubSeq(t, i1 + 1, i2 - 1)),
          NumOf(SubSeq(t, i2 + 1, Len(t)))>>

\* Calendar order of two dates.
DateBefore(a, b) ==
    \/ a[1] < b[1]
    \/ a[1] = b[1] /\ a[2] < b[2]
    \/ a[1] = b[1] /\ a[2] = b[2] /\ a[3] < b[3]

\* The days pandas' Timestamp (64-bit nanoseconds) cannot hold at midnight:
\* Timestamp.min is 1677-09-21 00:12:43, Timestamp.max 2262-04-11 23:47:16.
TimestampMin == <<1677, 9, 21>>
TimestampMax == <<2262, 4, 11>>

\* pd.to_datetime raises OutOfBoundsDatetime on text t.
OutOfBounds(t) ==
    \/ ~DateBefore(TimestampMin, ToDatetime(t))
    \/ DateBefore(TimestampMax, ToDatetime(t))

\* .dt.strftime('%d-%m-%Y')
StrftimeDmY(d) ==
    ZeroPad2(d[3]) \o <<"-">> \o ZeroPad2(d[2]) \o <<"-">> \o DecDigits(d[1])

RECURSIVE GroupThousands(_)
\* f"{x:,.0f}".replace(",", "."): the digits in groups of three.
GroupThousands(s) ==
    IF Len(s) <= 3 THEN s
    ELSE GroupThousands(SubSeq(s, 1, Len(s) - 3))
             \o <<".">> \o SubSeq(s, Len(s) - 2, Len(s))

FormatJumlah(x) == GroupThousands(DecDigits(x))

----------------------------------------------------------------------------
\* Inputs.

NoneDate == <<>>

\* The Transaksi objects a caller hands to tambah_transaksi.
TxInputs ==
    { [deskripsi |-> "Lunch", jumlah |-> 25000, kategori |-> "Food",
       tanggal |-> <<2024, 1, 10>>],
      [deskripsi |-> "Bus", jumlah |-> 5000, kategori |-> "Transport",
       tanggal |-> <<2024, 1, 10>>],
      [deskripsi |-> "Bus", jumlah |-> 1500, kategori |-> "Food",
       tanggal |-> <<2024, 1, 9>>],
      [deskripsi |-> "Old", jumlah |-> 700, kategori |-> "Food",
       tanggal |-> <<1600, 1, 1>>],
      [deskripsi |-> "Lunch", jumlah |-> 25000, kategori |-> "Food",
       tanggal |-> NoneDate] }

\* An int outside SQLite's 64-bit INTEGER (2**63); the largest integer of
\* the checker stands for it.
TooBig == 2147483647

\* The ids a caller asks to delete: stored, deleted and never assigned ones,
\* and one that is no SQLite integer.
IdInputs == 1..(MaxSeq + 1) \cup {TooBig}

\* datetime.date.today(): the run is within one day.
today == <<2024, 1, 10>>

\* The optional date of the two aggregates.
FilterInputs == {NoneDate, <<2024, 1, 10>>, <<2024, 1, 11>>}

\* What happens to a call: nothing; an sqlite3.Error raised by connect, by
\* cursor.execute or (with a transaction open) by commit; or the call is
\* overtaken: before its __exit__, a call of another thread has run __enter__
\* and self.conn is that call's connection.
ConstructFaults == {"none", "connect", "execute"}
ReadFaults == ConstructFaults \cup {"overtaken"}
WriteFaults == ReadFaults \cup {"commit"}

----------------------------------------------------------------------------
\* The SQL statements, on the committed rows.

MaxOf(S) == CHOOSE m \in S : \A x \in S : x <= m

RECURSIVE SumJumlah(_)
\* SUM(jumlah) over a non-empty set of rows.
SumJumlah(S) ==
    IF S = {} THEN 0
    ELSE LET r == CHOOSE x \in S : TRUE
         IN  r.jumlah + SumJumlah(S \ {r})

\* Mutant of NextRowid: a table declared without AUTOINCREMENT, which goes on
\* from the largest rowid now stored.
NextRowid_MaxPlusOne(rs, sq) == MaxOf({0} \cup {r.id : r \in rs}) + 1

\* INTEGER PRIMARY KEY AUTOINCREMENT: one more than the largest rowid the
\* table has ever held.
NextRowid(rs, sq) == MaxOf({sq} \cup {r.id : r \in rs}) + 1

\* INSERT INTO transaksi (deskripsi, jumlah, kategori, tanggal) VALUES (?,?,?,?)
SqlInsert(rs, sq, p) ==
    LET id == NextRowid(rs, sq)
    IN  [rows |-> rs \cup {[id |-> id, deskripsi |-> p[1], jumlah |-> p[2],
                            kategori |-> p[3], tanggal |-> p[4]]},
         seq |-> id,
         lastrowid |-> id]

\* Mutant of SqlDelete: the WHERE clause left out.
SqlDelete_All(rs, id) == {}

\* DELETE FROM transaksi WHERE id = ?
SqlDelete(rs, id) == {r \in rs : r.id # id}

\* ORDER BY tanggal DESC, id DESC: does r come before o
OrderedBefore(r, o) ==
    \/ TextLess(o.tanggal, r.tanggal)
    \/ o.tanggal = r.tanggal /\ o.id < r.id

RECURSIVE SqlSelectOrdered(_)
\* SELECT id, tanggal, deskripsi, kategori, jumlah FROM transaksi ORDER BY ...
SqlSelectOrdered(rs) ==
    IF rs = {} THEN <<>>
    ELSE LET first == CHOOSE r \in rs :
                          \A o \in rs \ {r} : OrderedBefore(r, o)
         IN  <<first>> \o SqlSelectOrdered(rs \ {first})

\* WHERE tanggal = ? (no WHERE clause when there is no parameter)
SqlWhere(rs, params) ==
    IF params = <<>> THEN rs ELSE {r \in rs : r.tanggal = params[1]}

\* Mutant of SqlSum: the date parameter is not applied.
SqlSum_IgnoresWhere(rs, params) ==
    IF rs = {} THEN [null |-> TRUE, v |-> 0]
    ELSE [null |-> FALSE, v |-> SumJumlah(rs)]

\* SELECT SUM(jumlah) ...: one row, NULL over no rows.
SqlSum(rs, params) ==
    LET m == SqlWhere(rs, params)
    IN  IF m = {} THEN [null |-> TRUE, v |-> 0]
        ELSE [null |-> FALSE, v |-> SumJumlah(m)]

\* Mutant of SqlGroupSum: every category of the table is listed, with 0 for
\* one that has no row of the date.
SqlGroupSum_AllKategori(rs, params) ==
    LET m == SqlWhere(rs, params)
    IN  {<<k, SumJumlah({r \in m : r.kategori = k})>> :
            k \in {r.kategori : r \in rs}}

\* SELECT kategori, SUM(jumlah) ... GROUP BY kategori: a set of (kategori, sum).
SqlGroupSum(rs, params) ==
    LET m == SqlWhere(rs, params)
    IN  {<<k, SumJumlah({r \in m : r.kategori = k})>> :
            k \in {r.kategori : r \in m}}

\* cursor.execute(sql, params) on an unlocked store: ok (or no such table),
\* the store after it, and what the cursor holds.
Execute(stmt, tb, rs, sq) ==
    IF stmt.kind = "create"
    THEN [ok |-> TRUE, table |-> TRUE, rows |-> rs, seq |-> sq,
          in_tx |-> FALSE, got |-> <<>>]
    ELSE IF ~tb
    THEN [ok |-> FALSE, table |-> tb, rows |-> rs, seq |-> sq,
          in_tx |-> FALSE, got |-> <<>>]
    ELSE CASE stmt.kind = "insert" ->
                LET i == SqlInsert(rs, sq, stmt.params)
                IN  [ok |-> TRUE, table |-> tb, rows |-> i.rows, seq |-> i.seq,
                     in_tx |-> TRUE, got |-> i.lastrowid]
           [] stmt.kind = "delete" ->
                [ok |-> TRUE, table |-> tb,
                 rows |-> SqlDelete(rs, stmt.params[1]), seq |-> sq,
                 in_tx |-> TRUE, got |-> <<>>]
           [] stmt.kind = "select" ->
                [ok |-> TRUE, table |-> tb, rows |-> rs, seq |-> sq,
                 in_tx |-> FALSE, got |-> SqlSelectOrdered(rs)]
           [] stmt.kind = "sum" ->
                [ok |-> TRUE, table |-> tb, rows |-> rs, seq |-> sq,
                 in_tx |-> FALSE, got |-> SqlSum(rs, stmt.params)]
           [] stmt.kind = "group" ->
                [ok |-> TRUE, table |-> tb, rows |-> rs, seq |-> sq,
                 in_tx |-> FALSE, got |-> SqlGroupSum(rs, stmt.params)]

----------------------------------------------------------------------------
\* DatabaseManager.

\* Does the statement write to the file
NeedsWrite(stmt, tb) ==
    stmt.kind \in {"insert", "delete"} \/ (stmt.kind = "create" /\ ~tb)

\* cursor.execute ends with 'database is locked' under the lock another open
\* connection holds: "pending" (its commit failed) shuts out every
\* statement, "reserved" (its statement was never committed) every write.
Blocked(stmt, tb, lock) ==
    lock = "pending" \/ (lock = "reserved" /\ NeedsWrite(stmt, tb))

\* __enter__ rebinds self.conn: a connection left open by a failed commit
\* loses its last reference and waits, with its lock, for the collector.
Unreferenced(cn, gb) == IF cn = "pending" THEN "pending" ELSE gb

\* Can the collector make a difference to the call about to be made
CollectorRuns(cn, gb) ==
    IF Unreferenced(cn, gb) # "none" THEN {FALSE, TRUE} ELSE {FALSE}

\* Binding the parameters raises OverflowError, which is no sqlite3.Error:
\* of the ints a caller passes, the id of the DELETE. cursor.execute binds
\* after it has prepared the statement and before it runs it.
Overflows(stmt) == stmt.kind = "delete" /\ stmt.params[1] >= TooBig

\* execute_query(sql, params, is_insert, fetch) under `fault`: what it
\* returns (out "None": Python's None; out "raised": an exception left it),
\* whether an sqlite3.Error was caught, the store and self.conn after it, and
\* what happened to the connection the call opened.
\* `gc`: the cycle collector runs (in another thread) while cursor.execute
\* waits for the lock in sqlite's busy handler.
execute_query(stmt, is_insert, fetch, fault, gc, tb, rs, sq, cn, gb) ==
    LET sentinel == IF is_insert \/ fetch # "none"
                    THEN [out |-> "None", val |-> FALSE]
                    ELSE [out |-> "value", val |-> FALSE]
        lock == IF gc THEN "none" ELSE Unreferenced(cn, gb)
        ex == Execute(stmt, tb, rs, sq)
        \* preparing the statement fails: an error of the store, a file
        \* shut to readers, or no such table
        unprepared == fault = "execute" \/ lock = "pending" \/ ~ex.ok
        failed == unprepared \/ Blocked(stmt, tb, lock)
    IN  IF fault = "connect"
        THEN \* sqlite3.connect raised: __enter__ assigned nothing
             [out |-> sentinel.out, val |-> sentinel.val, err |-> TRUE,
              table |-> tb, rows |-> rs, seq |-> sq, conn |-> cn,
              garbage |-> gb, log |-> <<"connect failed">>]
        ELSE IF fault = "overtaken"
        THEN \* __exit__ commits the other call's connection, which raises
             \* ProgrammingError (wrong thread, or closed); the call's own
             \* connection stays open with what its statement holds
             [out |-> sentinel.out, val |-> sentinel.val, err |-> TRUE,
              table |-> tb, rows |-> rs, seq |-> sq, conn |-> "closed",
              garbage |-> IF ~failed /\ ~Overflows(stmt) /\ ex.in_tx
                          THEN "reserved" ELSE lock,
              log |-> <<"connect",
                        IF failed \/ Overflows(stmt)
                        THEN "execute failed" ELSE "execute",
                        "commit of another call's connection failed">>]
        ELSE IF Overflows(stmt) /\ ~unprepared
        THEN \* OverflowError leaves the call; __exit__ commits and closes
             [out |-> "raised", val |-> FALSE, err |-> FALSE,
              table |-> tb, rows |-> rs, seq |-> sq, conn |-> "closed",
              garbage |-> lock,
              log |-> <<"connect", "execute failed", "commit", "close">>]
        ELSE IF failed
        THEN \* cursor.execute raised; __exit__ commits nothing and closes
             [out |-> sentinel.out, val |-> sentinel.val, err |-> TRUE,
              table |-> tb, rows |-> rs, seq |-> sq, conn |-> "closed",
              garbage |-> lock,
              log |-> <<"connect", "execute failed", "commit", "close">>]
        ELSE IF fault = "commit" /\ ex.in_tx
        THEN \* __exit__: commit raised, so close was not reached
             [out |-> sentinel.out, val |-> sentinel.val, err |-> TRUE,
              table |-> tb, rows |-> rs, seq |-> sq, conn |-> "pending",
              garbage |-> lock,
              log |-> <<"connect", "execute", "commit failed">>]
        ELSE [out |-> "value",
              val |-> IF is_insert \/ fetch # "none" THEN ex.got ELSE TRUE,
              err |-> FALSE,
              table |-> ex.table, rows |-> ex.rows, seq |-> ex.seq,
              conn |-> "closed", garbage |-> lock,
              log |-> <<"connect", "execute", "commit", "close">>]

----------------------------------------------------------------------------
\* AnggaranHarian. Each method is given the store's fault and the state, and
\* yields execute_query's record with the method's own return value in out/val
\* (out "raised": an exception left the method).

\* _buat_tabel_jika_tidak_ada: the result of the CREATE is dropped.
buat_tabel_jika_tidak_ada(fault, gc, tb, rs, sq, cn, gb) ==
    LET q == execute_query([kind |-> "create", params |-> <<>>],
                           FALSE, "none", fault, gc, tb, rs, sq, cn, gb)
    IN  [q EXCEPT !.out = "None", !.val = FALSE]

tambah_transaksi(tx, fault, gc, tb, rs, sq, cn, gb) ==
    IF tx.tanggal = NoneDate
    THEN \* tx.tanggal.strftime: AttributeError, before the gateway is called
         [out |-> "raised", val |-> FALSE, err |-> FALSE,
          table |-> tb, rows |-> rs, seq |-> sq, conn |-> cn,
          garbage |-> gb, log |-> <<>>]
    ELSE LET params == <<tx.deskripsi, tx.jumlah, tx.kategori,
                         StrftimeYmd(tx.tanggal)>>
             q == execute_query([kind |-> "insert", params |-> params],
                                TRUE, "none", fault, gc, tb, rs, sq, cn, gb)
         IN  \* return last_id is not None
             [q EXCEPT !.out = "value", !.val = (q.out # "None")]

\* The DataFrame: one entry per fetched row, in the fetched order, ID first.
DataFrame(records) ==
    [i \in 1..Len(records) |->
        [ID |-> records[i].id,
         Tanggal |-> StrftimeDmY(ToDatetime(records[i].tanggal)),
         Deskripsi |-> records[i].deskripsi,
         Kategori |-> records[i].kategori,
         Jumlah |-> FormatJumlah(records[i].jumlah)]]

get_dataframe_transaksi(fault, gc, tb, rs, sq, cn, gb) ==
    LET q == execute_query([kind |-> "select", params |-> <<>>],
                           FALSE, "all", fault, gc, tb, rs, sq, cn, gb)
    IN  IF q.out = "None" THEN q
        ELSE IF \E i \in 1..Len(q.val) : OutOfBounds(q.val[i].tanggal)
        THEN \* except Exception: return None
             [q EXCEPT !.out = "None", !.val = FALSE]
        ELSE [q EXCEPT !.val = DataFrame(q.val)]

\* Mutant of hapus_transaksi: true only when a row was deleted (rowcount > 0).
hapus_transaksi_RowMatched(id_transaksi, fault, gc, tb, rs, sq, cn, gb) ==
    LET q == execute_query([kind |-> "delete", params |-> <<id_transaksi>>],
                           FALSE, "none", fault, gc, tb, rs, sq, cn, gb)
    IN  [q EXCEPT !.val = q.val /\ id_transaksi \in {r.id : r \in rs}]

hapus_transaksi(id_transaksi, fault, gc, tb, rs, sq, cn, gb) ==
    execute_query([kind |-> "delete", params |-> <<id_transaksi>>],
                  FALSE, "none", fault, gc, tb, rs, sq, cn, gb)

\* The query parameters of the two aggregates.
FilterParams(tanggal) ==
    IF tanggal # NoneDate THEN <<StrftimeYmd(tanggal)>> ELSE <<>>

hitung_total_pengeluaran(tanggal, fault, gc, tb, rs, sq, cn, gb) ==
    LET q == execute_query([kind |-> "sum", params |-> FilterParams(tanggal)],
                           FALSE, "one", fault, gc, tb, rs, sq, cn, gb)
    IN  \* result[0] if result and result[0] is not None else 0.0
        [q EXCEPT !.out = "value",
                  !.val = IF q.out # "None" /\ ~q.val.null THEN q.val.v ELSE 0]

\* The dict {row[0]: row[1] for row in records}, as a function.
DictOf(records) ==
    [k \in {p[1] : p \in records} |->
        (CHOOSE p \in records : p[1] = k)[2]]

get_pengeluaran_per_kategori(tanggal, fault, gc, tb, rs, sq, cn, gb) ==
    LET q == execute_query([kind |-> "group", params |-> FilterParams(tanggal)],
                           FALSE, "all", fault, gc, tb, rs, sq, cn, gb)
    IN  \* {...} if records else {}
        [q EXCEPT !.out = "value",
                  !.val = IF q.out # "None" THEN DictOf(q.val) ELSE DictOf({})]

----------------------------------------------------------------------------
\* The ledger driven by a caller.

\* st.cache_data with nothing in it.
EmptyCache == [k \in {} |-> 0]

NoCall == [op |-> "none", arg |-> <<>>, fault |-> "none", out |-> "None",
           val |-> FALSE, err |-> FALSE, log |-> <<>>, before |-> {},
           table_before |-> FALSE, assigned_before |-> {}]

Call(op, arg, fault, r) ==
    [op |-> op, arg |-> arg, fault |-> fault, out |-> r.out, val |-> r.val,
     err |-> r.err, log |-> r.log, before |-> rows, table_before |-> table,
     assigned_before |-> assigned]

\* The store and the gateway after a call.
Stored(r) ==
    /\ table' = r.table
    /\ rows' = r.rows
    /\ seq' = r.seq
    /\ conn' = r.conn
    /\ garbage' = r.garbage

Init ==
    /\ ledger = "uninit"
    /\ table = FALSE
    /\ rows = {}
    /\ seq = 0
    /\ conn = "none"
    /\ garbage = "none"
    /\ assigned = {}
    /\ last = NoCall
    /\ filter_periode = "Semua Waktu"
    /\ tanggal_pilihan_state = NoneDate
    /\ cache_total = EmptyCache
    /\ cache_kat = EmptyCache

\* AnggaranHarian(): __init__ builds the gateway and ensures the table.
Construct ==
    /\ ledger = "uninit"
    /\ \E f \in ConstructFaults, g \in CollectorRuns(conn, garbage) :
        \E r \in {buat_tabel_jika_tidak_ada(f, g, table, rows, seq, conn, garbage)} :
            /\ Stored(r)
            /\ last' = Call("init", <<>>, f, r)
    /\ ledger' = "ready"
    /\ UNCHANGED <<assigned, session, cache_total, cache_kat>>

Tambah ==
    /\ ledger = "ready"
    /\ seq < MaxSeq
    /\ \E tx \in TxInputs, f \in WriteFaults, g \in CollectorRuns(conn, garbage) :
        \E r \in {tambah_transaksi(tx, f, g, table, rows, seq, conn, garbage)} :
            /\ Stored(r)
            /\ last' = Call("tambah", tx, f, r)
            /\ assigned' = assigned \cup {x.id : x \in r.rows \ rows}
    /\ UNCHANGED <<ledger, session, cache_total, cache_kat>>

Riwayat ==
    /\ ledger = "ready"
    /\ \E f \in ReadFaults, g \in CollectorRuns(conn, garbage) :
        \E r \in {get_dataframe_transaksi(f, g, table, rows, seq, conn, garbage)} :
            /\ Stored(r)
            /\ last' = Call("list", <<>>, f, r)
    /\ UNCHANGED <<ledger, assigned, session, cache_total, cache_kat>>

Hapus ==
    /\ ledger = "ready"
    /\ \E id \in IdInputs, f \in WriteFaults, g \in CollectorRuns(conn, garbage) :
        \E r \in {hapus_transaksi(id, f, g, table, rows, seq, conn, garbage)} :
            /\ Stored(r)
            /\ last' = Call("hapus", id, f, r)
    /\ UNCHANGED <<ledger, assigned, session, cache_total, cache_kat>>

Total ==
    /\ ledger = "ready"
    /\ \E d \in FilterInputs, f \in ReadFaults, g \in CollectorRuns(conn, garbage) :
        \E r \in {hitung_total_pengeluaran(d, f, g, table, rows, seq, conn,
                                           garbage)} :
            /\ Stored(r)
            /\ last' = Call("total", d, f, r)
    /\ UNCHANGED <<ledger, assigned, session, cache_total, cache_kat>>

PerKategori ==
    /\ ledger = "ready"
    /\ \E d \in FilterInputs, f \in ReadFaults, g \in CollectorRuns(conn, garbage) :
        \E r \in {get_pengeluaran_per_kategori(d, f, g, table, rows, seq, conn,
                                               garbage)} :
            /\ Stored(r)
            /\ last' = Call("kategori", d, f, r)
    /\ UNCHANGED <<ledger, assigned, session, cache_total, cache_kat>>

\* The cycle collector frees an unreferenced connection between two calls:
\* its transaction is rolled back and its lock released.
Collect ==
    /\ garbage # "none"
    /\ garbage' = "none"
    /\ UNCHANGED <<ledger, table, rows, seq, conn, assigned, last,
                   session, cache_total, cache_kat>>

\* The process ends and is started again: the file stays, memory does not.
Restart ==
    /\ ledger = "ready"
    /\ ledger' = "uninit"
    /\ conn' = "none"
    /\ garbage' = "none"
    /\ last' = NoCall
    /\ filter_periode' = "Semua Waktu"
    /\ tanggal_pilihan_state' = NoneDate
    /\ cache_total' = EmptyCache
    /\ cache_kat' = EmptyCache
    /\ UNCHANGED <<table, rows, seq, assigned>>

Next ==
    \/ Construct
    \/ Tambah
    \/ Riwayat
    \/ Hapus
    \/ Total
    \/ PerKategori
    \/ Collect
    \/ Restart

Spec == Init /\ [][Next]_vars

----------------------------------------------------------------------------
\* The Streamlit pages (main_app.py): every call of the ledger comes from a
\* rerun of main(), which renders the one page the sidebar radio names.

\* The date n years from v (relativedelta: 29 February goes to the 28th).
YearsFrom(v, n) ==
    <<v[1] + n, v[2], IF v[2] = 2 /\ v[3] = 29 THEN 28 ELSE v[3]>>

\* The dates a date_input of value v offers when no min_value and max_value
\* are given: v - 10 years .. v + 10 years.
Offered(v, d) ==
    /\ ~DateBefore(d, YearsFrom(v, 0 - 10))
    /\ ~DateBefore(YearsFrom(v, 10), d)

\* What the form of halaman_input submits: the date widget always holds a
\* date; jumlah 0 stands for the empty number field (None).
FormInputs ==
    {tx \in TxInputs : /\ tx.tanggal # NoneDate
                       /\ Offered(today, tx.tanggal)
                       /\ tx.kategori = "Food"}
    \cup { [deskripsi |-> "", jumlah |-> 5000, kategori |-> "Food",
            tanggal |-> <<2024, 1, 10>>],
           [deskripsi |-> "Bus", jumlah |-> 0, kategori |-> "Food",
            tanggal |-> <<2024, 1, 10>>] }

\* What happens to a call a page makes: the file of the running app can be
\* opened; a statement or a commit may fail, and the call of another
\* session's thread may overtake it.
PageReadFaults == ReadFaults \ {"connect"}
PageWriteFaults == WriteFaults \ {"connect"}

\* The values of the selectbox, and the dates picked in "Pilih Tanggal:",
\* whose date_input is given the session's date v as its value.
Periods == {"Semua Waktu", "Hari Ini", "Pilih Tanggal"}
PickInputs(v) == {d \in FilterInputs : d # NoneDate /\ Offered(v, d)}

\* Does the script runner stop the run at the element call that follows a
\* call of the ledger (its session has asked for a rerun or a stop)
Stops(made) == IF made THEN {FALSE, TRUE} ELSE {FALSE}

\* The cache with the value of key k set.
Put(cache, k, v) ==
    [x \in DOMAIN cache \cup {k} |-> IF x = k THEN v ELSE cache[x]]

\* The cache without key k (its entry is older than ttl=300).
Drop(cache, k) == [x \in DOMAIN cache \ {k} |-> cache[x]]

\* st.cache_data.clear() when `done`, else both caches as they are.
ClearIf(done) ==
    IF done
    THEN cache_total' = EmptyCache /\ cache_kat' = EmptyCache
    ELSE UNCHANGED <<cache_total, cache_kat>>

\* A rerun that does not render halaman_ringkasan: Streamlit discards the
\* state of its keyed widgets, so the selectbox starts again at its first
\* option; st.session_state.tanggal_pilihan_state stays.
OtherPage ==
    /\ filter_periode' = "Semua Waktu"
    /\ UNCHANGED tanggal_pilihan_state

\* halaman_input, form submitted.
halaman_input ==
    /\ ledger = "ready"
    /\ seq < MaxSubmit
    /\ \E tx \in FormInputs :
        IF tx.deskripsi = "" \/ tx.jumlah <= 0
        THEN \* st.warning: the ledger is not called
             UNCHANGED <<table, rows, seq, conn, garbage, assigned,
                         cache_total, cache_kat>>
        ELSE \E f \in PageWriteFaults, g \in CollectorRuns(conn, garbage) :
               \E r \in {tambah_transaksi(tx, f, g, table, rows, seq, conn,
                                          garbage)} :
                 /\ Stored(r)
                 /\ assigned' = assigned \cup {x.id : x \in r.rows \ rows}
                 \* st.success, st.cache_data.clear(), st.rerun()
                 /\ \E stop \in Stops(r.val) : ClearIf(r.val /\ ~stop)
    /\ OtherPage
    /\ last' = NoCall
    /\ UNCHANGED ledger

\* halaman_riwayat: one rerun, by the button that caused it.
halaman_riwayat ==
    /\ ledger = "ready"
    /\ \/ \* "Refresh Riwayat": st.cache_data.clear(); st.rerun()
          /\ ClearIf(TRUE)
          /\ UNCHANGED <<table, rows, seq, conn, garbage>>
       \/ \* no button: the table is fetched and shown
          \E f1 \in PageReadFaults, g1 \in CollectorRuns(conn, garbage) :
            \E df \in {get_dataframe_transaksi(f1, g1, table, rows, seq, conn,
                                               garbage)} :
                /\ Stored(df)
                /\ ClearIf(FALSE)
       \/ \* "Konfirmasi Hapus": the table is fetched, then the id deleted
          \E id \in 1..(MaxSubmit + 1), f1 \in PageReadFaults, f2 \in PageWriteFaults,
             g1 \in CollectorRuns(conn, garbage) :
            \E df \in {get_dataframe_transaksi(f1, g1, table, rows, seq, conn,
                                               garbage)} :
              \E g2 \in CollectorRuns(df.conn, df.garbage) :
                \E r \in {hapus_transaksi(id, f2, g2, df.table, df.rows, df.seq,
                                          df.conn, df.garbage)} :
                  /\ Stored(r)
                  \* st.success, st.cache_data.clear(), st.rerun()
                  /\ \E stop \in Stops(r.val) : ClearIf(r.val /\ ~stop)
    /\ OtherPage
    /\ last' = NoCall
    /\ UNCHANGED <<ledger, assigned>>

\* The store and the gateway as a record, for a call that is not made.
NotCalled ==
    [table |-> table, rows |-> rows, seq |-> seq, conn |-> conn,
     garbage |-> garbage]

\* The body of halaman_ringkasan with the selectbox at p, the session's date
\* at s and the caches ct, ck: the filter date, then the two cached calls.
Ringkasan(p, s, ct, ck) ==
    LET s1 == IF p = "Pilih Tanggal" /\ s = NoneDate THEN today ELSE s
        d == CASE p = "Semua Waktu" -> NoneDate
               [] p = "Hari Ini" -> today
               [] p = "Pilih Tanggal" -> s1
    IN  \* hitung_total_cached(tanggal_filter)
        \E t \in IF d \in DOMAIN ct THEN {NotCalled}
                 ELSE {hitung_total_pengeluaran(d, f, g, table, rows, seq,
                                                conn, garbage) :
                          f \in PageReadFaults,
                          g \in CollectorRuns(conn, garbage)} :
          \* st.metric .. st.spinner, then get_kategori_cached(tanggal_filter)
          \E stop \in Stops(d \notin DOMAIN ck) :
          \E k \in IF stop \/ d \in DOMAIN ck THEN {t}
                   ELSE {get_pengeluaran_per_kategori(d, f, g, t.table,
                                        t.rows, t.seq, t.conn, t.garbage) :
                            f \in PageReadFaults,
                            g \in CollectorRuns(t.conn, t.garbage)} :
              /\ filter_periode' = p
              /\ tanggal_pilihan_state' = s1
              /\ cache_total' = IF d \in DOMAIN ct THEN ct
                                ELSE Put(ct, d, t.val)
              /\ cache_kat' = IF stop \/ d \in DOMAIN ck THEN ck
                              ELSE Put(ck, d, k.val)
              /\ Stored(k)

\* halaman_ringkasan: one rerun, by the widget that caused it; the on_change
\* callback of a changed widget runs before the page body.
halaman_ringkasan ==
    /\ ledger = "ready"
    /\ \/ \* no filter widget changed
          Ringkasan(filter_periode, tanggal_pilihan_state,
                    cache_total, cache_kat)
       \/ \* the selectbox changed: st.cache_data.clear()
          \E p \in Periods \ {filter_periode} :
              Ringkasan(p, tanggal_pilihan_state, EmptyCache, EmptyCache)
       \/ \* the date_input changed: the session's date is set, then clear()
          /\ filter_periode = "Pilih Tanggal"
          /\ tanggal_pilihan_state # NoneDate
          /\ \E d \in PickInputs(tanggal_pilihan_state) \ {tanggal_pilihan_state} :
                 Ringkasan(filter_periode, d, EmptyCache, EmptyCache)
    /\ last' = NoCall
    /\ UNCHANGED <<ledger, assigned>>

\* A cache entry reaches its ttl and is dropped.
Expire ==
    /\ \/ \E d \in DOMAIN cache_total :
              /\ cache_total' = Drop(cache_total, d)
              /\ UNCHANGED cache_kat
       \/ \E d \in DOMAIN cache_kat :
              /\ cache_kat' = Drop(cache_kat, d)
              /\ UNCHANGED cache_total
    /\ UNCHANGED <<ledger, table, rows, seq, conn, garbage, assigned, last,
                   session>>

NextUI ==
    \/ Construct
    \/ halaman_input
    \/ halaman_riwayat
    \/ halaman_ringkasan
    \/ Expire
    \/ Collect
    \/ Restart

SpecUI == Init /\ [][NextUI]_vars

----------------------------------------------------------------------------
\* What the claims speak of, said without the statements of the model.

Ids(rs) == {r.id : r \in rs}

RowOf(rs, id) == CHOOSE r \in rs : r.id = id

\* Does a stored row fall under the date filter d (<<>>: no filter)
Matches(r, d) == d = NoneDate \/ ToDatetime(r.tanggal) = d

RECURSIVE AmountsUpTo(_, _, _, _)
\* The amounts of the rows of rs with id <= n, kategori in ks and date d,
\* added up id by id.
AmountsUpTo(n, rs, ks, d) ==
    IF n = 0 THEN 0
    ELSE AmountsUpTo(n - 1, rs, ks, d)
         + (IF \E r \in rs : r.id = n /\ r.kategori \in ks /\ Matches(r, d)
            THEN RowOf(rs, n).jumlah ELSE 0)

AllKategori == {tx.kategori : tx \in TxInputs}

SumOfRows(rs, d) == AmountsUpTo(MaxOf(Ids(rs) \cup {0}), rs, AllKategori, d)

SumOfKategori(rs, k, d) == AmountsUpTo(MaxOf(Ids(rs) \cup {0}), rs, {k}, d)

RECURSIVE SumOfValues(_, _)
SumOfValues(f, ks) ==
    IF ks = {} THEN 0
    ELSE LET k == CHOOSE x \in ks : TRUE
         IN  f[k] + SumOfValues(f, ks \ {k})

\* What list and totalSum(none) return on a healthy store holding rs.
ListOf(rs) ==
    get_dataframe_transaksi("none", FALSE, TRUE, rs, 0, "closed", "none")
TotalOf(rs) ==
    hitung_total_pengeluaran(NoneDate, "none", FALSE, TRUE, rs, 0, "closed",
                             "none").val

\* The sequence s without its entries of ID id.
Without(s, id) ==
    LET keep(e) == e.ID # id IN SelectSeq(s, keep)

----------------------------------------------------------------------------
\* C1: a total that the store answers is the arithmetic sum of the amounts of
\* exactly the rows now stored (those of date D when a date is given), and 0
\* when no stored row matches.
C1_TotalIsSumOfStoredRows ==
    (last.op = "total" /\ ~last.err) =>
        /\ last.out = "value"
        /\ last.val = SumOfRows(rows, last.arg)
        /\ ({r \in rows : Matches(r, last.arg)} = {} => last.val = 0)

\* C1 witness: a total by date over a store that also holds a row of another
\* date.
C1_Witness ==
    /\ last.op = "total" /\ ~last.err
    /\ last.arg = <<2024, 1, 10>>
    /\ last.val = 25000
    /\ Cardinality(rows) = 2

\* C2: a per-category mapping that the store answers has exactly the
\* categories with a matching stored row as keys, each with the sum of its
\* matching rows; the values add up to the total of the same filter.
C2_PerKategoriPartitionsTotal ==
    (last.op = "kategori" /\ ~last.err) =>
        /\ last.out = "value"
        /\ DOMAIN last.val = {r.kategori : r \in {x \in rows : Matches(x, last.arg)}}
        /\ \A k \in DOMAIN last.val :
               last.val[k] = SumOfKategori(rows, k, last.arg)
        /\ SumOfValues(last.val, DOMAIN last.val)
               = hitung_total_pengeluaran(last.arg, "none", TRUE, table, rows,
                                          seq, conn, garbage).val

\* C2 witness: a mapping by date with two categories.
C2_Witness ==
    /\ last.op = "kategori" /\ ~last.err
    /\ last.arg = <<2024, 1, 10>>
    /\ DOMAIN last.val = {"Food", "Transport"}
    /\ Cardinality(rows) = 2

\* C3: an add returns true iff the gateway returned an id; a true add puts
\* in exactly one row, with the input's fields, under an id above every id
\* given before; other rows stay; ids of stored rows are unique.
C3_AddInsertsOneFreshRow ==
    /\ \A r1, r2 \in rows : r1.id = r2.id => r1 = r2
    /\ Ids(rows) \subseteq assigned
    /\ (last.op = "tambah" /\ last.out # "raised") =>
        /\ last.val = ~last.err
        /\ ~last.val => rows = last.before
        /\ last.val =>
            \E r \in rows :
                /\ r \notin last.before
                /\ rows = last.before \cup {r}
                /\ r.deskripsi = last.arg.deskripsi
                /\ r.jumlah = last.arg.jumlah
                /\ r.kategori = last.arg.kategori
                /\ ToDatetime(r.tanggal) = last.arg.tanggal
                /\ \A i \in last.assigned_before \cup Ids(last.before) : r.id > i

\* C3 witness: a true add after the row with the highest id was deleted.
C3_Witness ==
    /\ last.op = "tambah" /\ last.out = "value" /\ last.val
    /\ last.assigned_before # {}
    /\ MaxOf(last.assigned_before) \notin Ids(last.before)

\* C4 as stated: a list whose fetch succeeds holds every stored row once,
\* later dates first and, within a date, higher ids first; None is returned
\* exactly when the fetch fails.
C4_ListOrderedOrNone ==
    last.op = "list" =>
        /\ (last.out = "None") = last.err
        /\ last.out = "value" =>
            /\ Len(last.val) = Cardinality(rows)
            /\ {last.val[i].ID : i \in 1..Len(last.val)} = Ids(rows)
            /\ \A i \in 1..Len(last.val) :
                   /\ last.val[i].Deskripsi = RowOf(rows, last.val[i].ID).deskripsi
                   /\ last.val[i].Kategori = RowOf(rows, last.val[i].ID).kategori
            /\ \A i, j \in 1..Len(last.val) :
                   i < j =>
                     LET a == RowOf(rows, last.val[i].ID)
                         b == RowOf(rows, last.val[j].ID)
                     IN  \/ DateBefore(ToDatetime(b.tanggal), ToDatetime(a.tanggal))
                         \/ /\ ToDatetime(a.tanggal) = ToDatetime(b.tanggal)
                            /\ a.id > b.id

\* C5: a delete of a stored id that succeeds removes that row and no other:
\* a list then lacks the id and holds the other rows as before, and the
\* total is lower by the row's amount.
C5_DeleteRemovesExactlyThatRow ==
    (last.op = "hapus" /\ last.val /\ last.arg \in Ids(last.before)) =>
        /\ rows = last.before \ {RowOf(last.before, last.arg)}
        /\ ListOf(rows).out = "value" =>
            /\ \A i \in 1..Len(ListOf(rows).val) :
                   ListOf(rows).val[i].ID # last.arg
            /\ {ListOf(rows).val[i].ID : i \in 1..Len(ListOf(rows).val)}
                   = Ids(last.before) \ {last.arg}
            /\ ListOf(last.before).out = "value" =>
                   ListOf(rows).val = Without(ListOf(last.before).val, last.arg)
        /\ TotalOf(rows) = TotalOf(last.before)
                             - RowOf(last.before, last.arg).jumlah

\* C5 witness: a delete of one of two stored rows, both of which a list
\* shows before it.
C5_Witness ==
    /\ last.op = "hapus" /\ last.val
    /\ last.arg \in Ids(last.before)
    /\ Cardinality(last.before) = 2
    /\ ListOf(last.before).out = "value"
    /\ Len(ListOf(rows).val) = 1

\* C6: a delete that returns, returns true exactly when no storage error
\* occurred, also when no stored row has the id, and then the rows are as
\* before; it returns nothing only for an id that is no SQLite integer, on
\* a store whose table exists.
C6_DeleteTrueUnlessStorageError ==
    last.op = "hapus" =>
        /\ last.out \in {"value", "raised"}
        /\ last.out = "raised" =>
               /\ last.arg >= TooBig
               /\ last.table_before
               /\ ~last.err
               /\ rows = last.before
        /\ last.out = "value" =>
            /\ last.val = ~last.err
            /\ (~last.err /\ last.arg \notin Ids(last.before)) =>
                   last.val /\ rows = last.before

\* C6 witness: a true delete of an id that no stored row has.
C6_Witness ==
    /\ last.op = "hapus" /\ last.out = "value" /\ last.val
    /\ last.arg \notin Ids(last.before)
    /\ last.before # {}

\* C7: no call of the ledger lets a fault out, and a call that fails leaves
\* the rows as they were.
C7_NoFaultEscapes ==
    /\ last.out # "raised"
    /\ (last.err => rows = last.before)

\* C8: the connection a call of execute_query opened has been committed and
\* then closed when the call returns, and none stays open after it.
C8_CommittedThenClosed ==
    /\ (last.log # <<>> /\ last.log[1] = "connect") =>
           /\ Len(last.log) = 4
           /\ last.log[3] = "commit"
           /\ last.log[4] = "close"
    /\ conn # "pending"
    /\ garbage = "none"

\* C9: once the constructor has returned the table exists, so no public
\* operation runs without it; constructing over an existing table keeps its
\* rows.
C9_ReadyMeansTableExists ==
    /\ ledger = "ready" => table
    /\ last.op \in {"tambah", "list", "hapus", "total", "kategori"} =>
           last.table_before
    /\ (last.op = "init" /\ last.table_before) => rows = last.before

\* The mapping the summary page should show for filter d.
KategoriOf(rs, d) ==
    [k \in {r.kategori : r \in {x \in rs : Matches(x, d)}} |->
        SumOfKategori(rs, k, d)]

\* C10 as stated: every cached total and mapping equals the value over the
\* rows now stored.
C10_CacheNeverStale ==
    /\ \A d \in DOMAIN cache_total : cache_total[d] = SumOfRows(rows, d)
    /\ \A d \in DOMAIN cache_kat : cache_kat[d] = KategoriOf(rows, d)

====
